---- MODULE Spec2Model ----
(***************************************************************************)
(* Visual search system: the vector store behind QdrantService, the        *)
(* service's own operations (ensure_collection, upsert_embeddings,         *)
(* search_similar, get_collection_info, check_health) and the two          *)
(* endpoints of the API (health_check, search_images).                     *)
(*                                                                         *)
(* Three specifications share the variables:                               *)
(*   Spec       the query pipeline: search_images requests, step by step   *)
(*              at every external call, against a store that may go down;  *)
(*   SpecStore  the store-facing operations of QdrantService and the       *)
(*              health endpoint;                                           *)
(*   SpecIndex  the indexing script (generate_embeddings.py), run and      *)
(*              rerun over a directory of images.                          *)
(***************************************************************************)
EXTENDS Integers, Sequences, FiniteSets, TLC

VARIABLES storeUp, collections, svc, last_call, ensure_created, req, dir, run

vars == <<storeUp, collections, svc, last_call, ensure_created, req, dir, run>>

(***************************************************************************)
(* Bounds of the model                                                     *)
(***************************************************************************)
MaxId == 1
MaxBatch == 2
MaxTopK == 2

(***************************************************************************)
(* Configuration                                                           *)
(***************************************************************************)
QDRANT_COLLECTION_NAME == "image_embeddings"
EMBEDDING_SIZE == 768

\* EMBEDDING_SIZE is read from the environment: a deployment may set another size.
EmbeddingSizes == {EMBEDDING_SIZE, 512}

\* Python's None, where a string is expected and where an object is expected.
None == "None"
NoneInfo == [kind |-> "None"]

Min(a, b) == IF a <= b THEN a ELSE b
Abs(a) == IF a < 0 THEN -a ELSE a

(***************************************************************************)
(* Data                                                                    *)
(***************************************************************************)
Ids == 0..MaxId

\* A vector is abstracted to its length and a direction on a small scale.
VecVals == {0, 1}

FileOf(i) == "img" \o ToString(i) \o ".jpg"

\* The dicts handed to upsert_embeddings: for each id two contents of the
\* configured length and one of another length; one dict lacks the "id" key.
UpsertIds == {0, 1}
Contents ==
  {[vector |-> [size |-> EMBEDDING_SIZE, val |-> 0], payload |-> [filename |-> FileOf(0)]],
   [vector |-> [size |-> EMBEDDING_SIZE, val |-> 1], payload |-> [filename |-> FileOf(1)]],
   [vector |-> [size |-> 512, val |-> 0], payload |-> [filename |-> FileOf(0)]]}
VecDicts == {[id |-> i, vector |-> c.vector, payload |-> c.payload] : i \in UpsertIds, c \in Contents}
BadVecDict == [vector |-> [size |-> EMBEDDING_SIZE, val |-> 0], payload |-> [filename |-> FileOf(0)]]
VecInputs == VecDicts \cup {BadVecDict}

SeqsUpTo(S, n) == UNION {[1..k -> S] : k \in 1..n}

(***************************************************************************)
(* The vector store (the Qdrant server seen through QdrantClient)          *)
(***************************************************************************)
CollectionNames(colls) == {c.name : c \in colls}

HasCollection(colls, name) == name \in CollectionNames(colls)

TheCollection(colls, name) == CHOOSE c \in colls : c.name = name

\* client.create_collection: the store refuses a name it already holds.
CreateCollection(colls, name, size) ==
  IF HasCollection(colls, name)
  THEN [ok |-> FALSE, colls |-> colls]
  ELSE [ok |-> TRUE, colls |-> colls \cup {[name |-> name, size |-> size, points |-> {}]}]

\* Faulty variant: the point is added beside the one it should replace.
UpsertPoint_InsertOnly(points, p) == points \cup {p}

\* One point written by client.upsert: insert, or replace the point of that id.
UpsertPoint(points, p) == {x \in points : x.id # p.id} \cup {p}

RECURSIVE UpsertPoints(_, _)
UpsertPoints(points, batch) ==
  IF batch = <<>> THEN points
  ELSE UpsertPoints(UpsertPoint(points, Head(batch)), Tail(batch))

\* client.upsert: refused as a whole (nothing written) when the store is down,
\* the collection is missing or a vector has the wrong length.
StoreUpsertOk(up, colls, name, batch) ==
  /\ up
  /\ HasCollection(colls, name)
  /\ \A i \in 1..Len(batch) : batch[i].vector.size = TheCollection(colls, name).size

StoreUpsert(colls, name, batch) ==
  LET c == TheCollection(colls, name)
  IN (colls \ {c}) \cup {[c EXCEPT !.points = UpsertPoints(c.points, batch)]}

\* Cosine similarity of the abstract vectors: higher is closer.
Score(q, v) == 10 - Abs(q.val - v.val)

ScoredPoint(q, p) == [id |-> p.id, score |-> Score(q, p.vector), payload |-> p.payload]

Injective(s) == \A i, j \in DOMAIN s : i # j => s[i] # s[j]

Range(s) == {s[i] : i \in DOMAIN s}

\* client.search: the limit best points by descending score; ties in any order.
StoreSearchOk(up, colls, name, q) ==
  /\ up
  /\ HasCollection(colls, name)
  /\ q.size = TheCollection(colls, name).size

StoreSearch(colls, name, q, limit) ==
  LET pts == TheCollection(colls, name).points
      m == Min(limit, Cardinality(pts))
  IN {[i \in 1..m |-> ScoredPoint(q, s[i])] : s \in
        {t \in [1..m -> pts] :
           /\ Injective(t)
           /\ \A i \in 1..m : \A j \in 1..m : i < j => Score(q, t[i].vector) >= Score(q, t[j].vector)
           /\ \A p \in pts \ Range(t) : \A i \in 1..m : Score(q, t[i].vector) >= Score(q, p.vector)}}

(***************************************************************************)
(* QdrantService                                                           *)
(***************************************************************************)
Tick(t) == 1 - t

\* What a call gave back, as recorded in last_call: a string (how
\* ensure_collection ended), a bool, or an object.
StrVal(s) == [str |-> s]
BoolVal(b) == [bool |-> b]

StoreDown ==
  /\ storeUp
  /\ storeUp' = FALSE
  /\ UNCHANGED <<collections, svc, last_call, ensure_created, req, dir, run>>

StoreRecover ==
  /\ ~storeUp
  /\ storeUp' = TRUE
  /\ UNCHANGED <<collections, svc, last_call, ensure_created, req, dir, run>>

\* Faulty variant: create without looking at the listed collections.
EnsureCreates_Always(names, name) == TRUE

\* ensure_collection's test: create only a collection that is not listed.
EnsureCreates(names, name) == name \notin names

\* What ensure_collection does to the store and how it ends:
\* "raised" (the store call failed), "created" or "exists".
EnsureOutcome(up, colls, name, size) ==
  IF ~up THEN [ret |-> "raised", colls |-> colls]
  ELSE IF EnsureCreates(CollectionNames(colls), name)
       THEN LET r == CreateCollection(colls, name, size)
            IN [ret |-> IF r.ok THEN "created" ELSE "raised", colls |-> r.colls]
       ELSE [ret |-> "exists", colls |-> colls]

ensure_collection ==
  LET out == EnsureOutcome(storeUp, collections, svc.collection_name, svc.embedding_size)
  IN /\ collections' = out.colls
     /\ last_call' = [op |-> "ensure_collection", arg |-> <<>>, ret |-> StrVal(out.ret), tick |-> Tick(last_call.tick)]
     /\ ensure_created' = IF out.ret = "created" THEN Min(ensure_created + 1, 2) ELSE ensure_created
     /\ svc' = [svc EXCEPT !.state = IF svc.state = "new"
                                       THEN (IF out.ret = "raised" THEN "crashed" ELSE "ready")
                                       ELSE svc.state]
     /\ UNCHANGED <<storeUp, req, dir, run>>

\* The points built from the dicts: fails when a dict lacks a key.
PointsBuilt(vectors) == \A i \in 1..Len(vectors) : {"id", "vector", "payload"} \subseteq DOMAIN vectors[i]

PointStructs(vectors) == [i \in 1..Len(vectors) |-> [id |-> vectors[i].id, vector |-> vectors[i].vector, payload |-> vectors[i].payload]]

\* The batch is written by one client.upsert call, or not at all.
UpsertWritten(up, colls, name, vectors) ==
  PointsBuilt(vectors) /\ StoreUpsertOk(up, colls, name, PointStructs(vectors))

\* Faulty variant: success is reported whatever happened.
UpsertReturn_AlwaysTrue(written) == TRUE

UpsertReturn(written) == written

upsert_embeddings(vectors) ==
  LET written == UpsertWritten(storeUp, collections, svc.collection_name, vectors)
  IN /\ svc.state = "ready"
     /\ collections' = IF written
                       THEN StoreUpsert(collections, svc.collection_name, PointStructs(vectors))
                       ELSE collections
     /\ last_call' = [op |-> "upsert_embeddings", arg |-> vectors, ret |-> BoolVal(UpsertReturn(written)), tick |-> Tick(last_call.tick)]
     /\ UNCHANGED <<storeUp, svc, ensure_created, req, dir, run>>

\* What the store holds about the collection (client.get_collection).
CollectionInfo(c) == [kind |-> "CollectionInfo", size |-> c.size, points_count |-> Cardinality(c.points)]

ExistsStr == [kind |-> "str", value |-> "Exists"]

\* get_collection_info: None for a missing collection, the info, or "Exists"
\* whenever a call raised (the store is down, or the info does not parse).
GetCollectionInfo(up, colls, name) ==
  IF ~up THEN {ExistsStr}
  ELSE IF ~HasCollection(colls, name) THEN {NoneInfo}
       ELSE {CollectionInfo(TheCollection(colls, name)), ExistsStr}

get_collection_info ==
  /\ svc.state = "ready"
  /\ \E info \in GetCollectionInfo(storeUp, collections, svc.collection_name) :
       last_call' = [op |-> "get_collection_info", arg |-> <<>>, ret |-> info, tick |-> Tick(last_call.tick)]
  /\ UNCHANGED <<storeUp, collections, svc, ensure_created, req, dir, run>>

CheckHealth(up) == up

check_health ==
  /\ svc.state = "ready"
  /\ last_call' = [op |-> "check_health", arg |-> <<>>, ret |-> BoolVal(CheckHealth(storeUp)), tick |-> Tick(last_call.tick)]
  /\ UNCHANGED <<storeUp, collections, svc, ensure_created, req, dir, run>>

\* GET /: qdrant_connected is "the collection info is not None".
HealthResponse(info) == [status |-> "healthy", qdrant_connected |-> (info # NoneInfo), clip_model_loaded |-> TRUE]

health_check ==
  /\ svc.state = "ready"
  /\ \E info \in GetCollectionInfo(storeUp, collections, svc.collection_name) :
       last_call' = [op |-> "health_check", arg |-> <<>>, ret |-> HealthResponse(info), tick |-> Tick(last_call.tick)]
  /\ UNCHANGED <<storeUp, collections, svc, ensure_created, req, dir, run>>

(***************************************************************************)
(* CLIPClient and ExplanationGenerator                                     *)
(***************************************************************************)
Queries == {"cat", "dog"}

\* get_text_embedding: a vector of the model's length.
TextEmbedding(query) == [size |-> EMBEDDING_SIZE, val |-> IF query = "cat" THEN 0 ELSE 1]

NoVector == [size |-> 0, val |-> 0]

\* generate_explanation: the model's text, or None when anything in it raised.
ExplanationText(image_path, query) == "Relevant to " \o query \o ": " \o image_path

GenerateExplanation(ok, image_path, query) == IF ok THEN ExplanationText(image_path, query) ELSE None

get_image_path(filename) == "data/images/" \o filename

(***************************************************************************)
(* POST /search: search_images, one step per external call                 *)
(***************************************************************************)
Reqs == {"r1", "r2"}

IdleReq == [pc |-> "idle", query |-> "", top_k |-> 0, query_embedding |-> NoVector,
            search_results |-> <<>>, i |-> 0, results |-> <<>>, status |-> 0,
            response |-> <<>>, embed_failed |-> FALSE, search_calls |-> 0,
            search_ok |-> FALSE, n_at_search |-> 0, explain_calls |-> 0, failed_expl |-> {}]

Receive(r, query, top_k) ==
  /\ svc.state = "ready"
  /\ req[r].pc = "idle"
  /\ req' = [req EXCEPT ![r] = [IdleReq EXCEPT !.pc = "embed", !.query = query, !.top_k = top_k]]
  /\ UNCHANGED <<storeUp, collections, svc, last_call, ensure_created, dir, run>>

\* Faulty variant: the embedding failure is swallowed and the request goes on.
AfterEmbedding_Swallowed(ok) == "search"

\* An exception in the try block ends the request with HTTP 500.
AfterEmbedding(ok) == IF ok THEN "search" ELSE "failed"

EmbedQuery(r, ok) ==
  /\ req[r].pc = "embed"
  /\ req' = [req EXCEPT ![r].pc = AfterEmbedding(ok),
                        ![r].query_embedding = IF ok THEN TextEmbedding(req[r].query) ELSE NoVector,
                        ![r].embed_failed = ~ok,
                        ![r].status = IF AfterEmbedding(ok) = "failed" THEN 500 ELSE 0]
  /\ UNCHANGED <<storeUp, collections, svc, last_call, ensure_created, dir, run>>

\* search_similar: the hits as dicts in the store's order; [] when the call raised.
SearchSimilarResults(hits) == [k \in 1..Len(hits) |-> [id |-> hits[k].id, score |-> hits[k].score, payload |-> hits[k].payload]]

SearchSimilar(up, colls, name, q, top_k) ==
  IF StoreSearchOk(up, colls, name, q)
  THEN {SearchSimilarResults(hits) : hits \in StoreSearch(colls, name, q, top_k)}
  ELSE {<<>>}

\* Faulty variant: the search path sets the collection up anew before it reads it.
Search_Recreating(r) ==
  /\ req[r].pc = "search"
  /\ collections' = {[c EXCEPT !.points = {}] : c \in collections}
  /\ req' = [req EXCEPT ![r].pc = "explain", ![r].search_results = <<>>, ![r].search_calls = 1,
                        ![r].search_ok = storeUp, ![r].n_at_search = 0]
  /\ UNCHANGED <<storeUp, svc, last_call, ensure_created, dir, run>>

Search(r) ==
  /\ req[r].pc = "search"
  /\ \E res \in SearchSimilar(storeUp, collections, svc.collection_name, req[r].query_embedding, req[r].top_k) :
       req' = [req EXCEPT ![r].pc = "explain",
                          ![r].search_results = res,
                          ![r].search_calls = 1,
                          ![r].search_ok = StoreSearchOk(storeUp, collections, svc.collection_name, req[r].query_embedding),
                          ![r].n_at_search = IF HasCollection(collections, svc.collection_name)
                                             THEN Cardinality(TheCollection(collections, svc.collection_name).points)
                                             ELSE 0]
  /\ UNCHANGED <<storeUp, collections, svc, last_call, ensure_created, dir, run>>

SearchResult(result, explanation) ==
  [image_id |-> ToString(result.id),
   filename |-> result.payload.filename,
   score |-> result.score,
   explanation |-> explanation,
   image_url |-> "/images/" \o result.payload.filename]

\* Faulty variants of the append: newest first; a hit without explanation dropped.
AppendResult_Prepend(results, search_result) == <<search_result>> \o results

AppendResult_DropUnexplained(results, search_result) ==
  IF search_result.explanation = None THEN results ELSE Append(results, search_result)

AppendResult(results, search_result) == Append(results, search_result)

\* One turn of the loop over search_results.
Explain(r, ok) ==
  /\ req[r].pc = "explain"
  /\ req[r].i < Len(req[r].search_results)
  /\ LET result == req[r].search_results[req[r].i + 1]
         image_path == get_image_path(result.payload.filename)
         explanation == GenerateExplanation(ok, image_path, req[r].query)
     IN req' = [req EXCEPT ![r].i = @ + 1,
                           ![r].results = AppendResult(@, SearchResult(result, explanation)),
                           ![r].explain_calls = @ + 1,
                           ![r].failed_expl = IF ok THEN @ ELSE @ \cup {req[r].i + 1}]
  /\ UNCHANGED <<storeUp, collections, svc, last_call, ensure_created, dir, run>>

SearchResponse(results, query) == [results |-> results, query |-> query]

Respond(r) ==
  /\ req[r].pc = "explain"
  /\ req[r].i = Len(req[r].search_results)
  /\ req' = [req EXCEPT ![r].pc = "done",
                        ![r].status = 200,
                        ![r].response = <<SearchResponse(req[r].results, req[r].query)>>]
  /\ UNCHANGED <<storeUp, collections, svc, last_call, ensure_created, dir, run>>

\* The request is over; the worker takes the next one.
Finish(r) ==
  /\ req[r].pc \in {"done", "failed"}
  /\ req' = [req EXCEPT ![r] = IdleReq]
  /\ UNCHANGED <<storeUp, collections, svc, last_call, ensure_created, dir, run>>

(***************************************************************************)
(* The image directory and the indexing script's state                     *)
(***************************************************************************)
MaxFiles == 18

\* generate_embeddings.py: batch_size and Config.EMBEDDING_SIZE
batch_size == 16
CONFIG_EMBEDDING_SIZE == 768

\* Image files are numbered from 1; file n is named FileOf(n). The model's
\* embedding of an image depends on the image alone.
ImageEmbedding(n) == [size |-> CONFIG_EMBEDDING_SIZE, val |-> n % 2]

\* os.listdir gives the files in an order of its own: ascending or descending here.
Listing(n, ascending) == [k \in 1..n |-> IF ascending THEN k ELSE n + 1 - k]

\* The files that do not decode: some of the first, second and last file, a
\* whole batch, or all of them.
CorruptSets(n) ==
  (SUBSET ({1, 2, n} \cap (1..n))) \cup {1..Min(n, batch_size), (batch_size + 1)..n, 1..n}

EmptyDir == [image_files |-> <<>>, corrupt |-> {}]

Directories ==
  UNION {{[image_files |-> Listing(n, asc), corrupt |-> c] : asc \in BOOLEAN, c \in CorruptSets(n)} :
           n \in 0..MaxFiles}

IdleRun == [pc |-> "idle", rebuild |-> FALSE, image_files |-> <<>>, i |-> 0,
            point_id_counter |-> 0, valid_files |-> <<>>, embeddings |-> <<>>,
            warnings |-> {}, batches |-> <<>>, assigned |-> <<>>,
            reported |-> <<>>, count |-> <<>>, error |-> <<>>]

(***************************************************************************)
(* generate_embeddings.py: main, one step per external call                *)
(***************************************************************************)
RunVars == <<svc, last_call, ensure_created, req, dir>>

\* The operator starts the script; it takes no option, whatever is wanted.
StartRun(rebuild) ==
  /\ run.pc \in {"idle", "done", "returned", "aborted"}
  /\ run' = [IdleRun EXCEPT !.pc = "setup", !.rebuild = rebuild]
  /\ UNCHANGED <<storeUp, collections>>
  /\ UNCHANGED RunVars

\* except Exception: the error is logged and main returns.
ErrorReport(e) == [level |-> "ERROR", message |-> "An error occurred during the process: ", exception |-> e]

Aborted(r, e) == [r EXCEPT !.pc = "aborted", !.error = <<ErrorReport(e)>>]

\* Faulty variant: the collection is left as it is found.
DropsCollection_Never(rebuild) == FALSE

\* Whether the run drops and recreates the collection: always.
DropsCollection(rebuild) == TRUE

\* client.recreate_collection, first half: the collection is deleted.
RecreateDelete ==
  /\ run.pc = "setup"
  /\ IF ~DropsCollection(run.rebuild)
     THEN run' = [run EXCEPT !.pc = "load"] /\ UNCHANGED collections
     ELSE IF ~storeUp
          THEN run' = Aborted(run, "recreate_collection") /\ UNCHANGED collections
          ELSE /\ collections' = {c \in collections : c.name # QDRANT_COLLECTION_NAME}
               /\ run' = [run EXCEPT !.pc = "create"]
  /\ UNCHANGED storeUp
  /\ UNCHANGED RunVars

\* client.recreate_collection, second half: it is created anew, empty.
RecreateCreate ==
  /\ run.pc = "create"
  /\ LET r == CreateCollection(collections, QDRANT_COLLECTION_NAME, CONFIG_EMBEDDING_SIZE)
     IN IF storeUp /\ r.ok
        THEN collections' = r.colls /\ run' = [run EXCEPT !.pc = "load"]
        ELSE run' = Aborted(run, "recreate_collection") /\ UNCHANGED collections
  /\ UNCHANGED storeUp
  /\ UNCHANGED RunVars

\* CLIPModel.from_pretrained / CLIPProcessor.from_pretrained
LoadModel(ok) ==
  /\ run.pc = "load"
  /\ run' = IF ok THEN [run EXCEPT !.pc = "list"] ELSE Aborted(run, "from_pretrained")
  /\ UNCHANGED <<storeUp, collections>>
  /\ UNCHANGED RunVars

\* os.listdir; with no image the script returns at once.
ListImages ==
  /\ run.pc = "list"
  /\ run' = [run EXCEPT !.image_files = dir.image_files,
                        !.pc = IF dir.image_files = <<>> THEN "returned" ELSE "batch"]
  /\ UNCHANGED <<storeUp, collections>>
  /\ UNCHANGED RunVars

BatchFiles(image_files, i) == SubSeq(image_files, i + 1, Min(i + batch_size, Len(image_files)))

\* Faulty variant: the first file that fails to open ends the batch.
ValidFiles_StopAtFirstFailure(batch_files, corrupt) ==
  LET bad == {k \in 1..Len(batch_files) : batch_files[k] \in corrupt}
  IN IF bad = {} THEN batch_files
     ELSE SubSeq(batch_files, 1, (CHOOSE k \in bad : \A m \in bad : k <= m) - 1)

\* The files of the batch that open and convert, in order.
ValidFiles(batch_files, corrupt) ==
  LET Decodes(n) == n \notin corrupt
  IN SelectSeq(batch_files, Decodes)

\* The head of the loop body: the images are opened, the ones that fail are
\* skipped with a warning; a batch without any image is passed over.
DecodeBatch ==
  /\ run.pc = "batch"
  /\ run.i < Len(run.image_files)
  /\ LET batch_files == BatchFiles(run.image_files, run.i)
         valid_files == ValidFiles(batch_files, dir.corrupt)
         skipped == Range(batch_files) \cap dir.corrupt
     IN run' = IF valid_files = <<>>
               THEN [run EXCEPT !.i = @ + batch_size,
                                !.warnings = @ \cup skipped,
                                !.valid_files = <<>>,
                                !.batches = Append(@, [first |-> run.i, committed |-> 0])]
               ELSE [run EXCEPT !.pc = "embed",
                                !.warnings = @ \cup skipped,
                                !.valid_files = valid_files]
  /\ UNCHANGED <<storeUp, collections>>
  /\ UNCHANGED RunVars

\* processor(...) and model.get_image_features: one embedding per image.
EmbedBatch(ok) ==
  /\ run.pc = "embed"
  /\ run' = IF ok
            THEN [run EXCEPT !.pc = "upsert",
                             !.embeddings = [k \in 1..Len(run.valid_files) |-> ImageEmbedding(run.valid_files[k])]]
            ELSE Aborted(run, "get_image_features")
  /\ UNCHANGED <<storeUp, collections>>
  /\ UNCHANGED RunVars

\* points_to_upsert: enumerate(zip(valid_files, embeddings))
PointsToUpsert(point_id_counter, valid_files, embeddings) ==
  [k \in 1..Min(Len(valid_files), Len(embeddings)) |->
     [id |-> point_id_counter + (k - 1), vector |-> embeddings[k], payload |-> [filename |-> FileOf(valid_files[k])]]]

\* Faulty variant: the counter stays where it was.
NextCounter_Stuck(point_id_counter, points) == point_id_counter

NextCounter(point_id_counter, points) == point_id_counter + Len(points)

\* client.upsert(wait=True) and the counter's advance.
UpsertBatch ==
  /\ run.pc = "upsert"
  /\ LET points == PointsToUpsert(run.point_id_counter, run.valid_files, run.embeddings)
     IN IF StoreUpsertOk(storeUp, collections, QDRANT_COLLECTION_NAME, points)
        THEN /\ collections' = StoreUpsert(collections, QDRANT_COLLECTION_NAME, points)
             /\ run' = [run EXCEPT !.pc = "batch",
                                   !.i = @ + batch_size,
                                   !.point_id_counter = NextCounter(@, points),
                                   !.assigned = @ \o [k \in 1..Len(points) |-> [id |-> points[k].id, file |-> run.valid_files[k]]],
                                   !.batches = Append(@, [first |-> run.i, committed |-> Len(points)])]
        ELSE /\ run' = Aborted(run, "upsert")
             /\ UNCHANGED collections
  /\ UNCHANGED storeUp
  /\ UNCHANGED RunVars

\* After the loop: the stored count is logged, then client.count(exact=True).
FinishRun ==
  /\ run.pc = "batch"
  /\ run.i >= Len(run.image_files)
  /\ run' = IF storeUp /\ HasCollection(collections, QDRANT_COLLECTION_NAME)
            THEN [run EXCEPT !.pc = "done",
                             !.reported = <<run.point_id_counter>>,
                             !.count = <<Cardinality(TheCollection(collections, QDRANT_COLLECTION_NAME).points)>>]
            ELSE [Aborted(run, "count") EXCEPT !.reported = <<run.point_id_counter>>]
  /\ UNCHANGED <<storeUp, collections>>
  /\ UNCHANGED RunVars

(***************************************************************************)
(* Specifications                                                          *)
(***************************************************************************)
NoCall == [op |-> "none", arg |-> <<>>, ret |-> StrVal("none"), tick |-> 0]

PointOf(i, val, size) == [id |-> i, vector |-> [size |-> size, val |-> val], payload |-> [filename |-> FileOf(i)]]

\* The collections an indexing run can have left behind: vectors of the
\* configured length, one point per id.
IndexedCollections ==
  {[name |-> QDRANT_COLLECTION_NAME, size |-> EMBEDDING_SIZE, points |-> {PointOf(i, f[i], EMBEDDING_SIZE) : i \in S}] :
     S \in SUBSET Ids, f \in [Ids -> VecVals]}

Init ==
  /\ storeUp = TRUE
  /\ \E c \in IndexedCollections : collections = {c}
  /\ svc = [collection_name |-> QDRANT_COLLECTION_NAME, embedding_size |-> EMBEDDING_SIZE, state |-> "ready"]
  /\ last_call = NoCall
  /\ ensure_created = 0
  /\ req = [r \in Reqs |-> IdleReq]
  /\ dir = EmptyDir
  /\ run = IdleRun

Next ==
  \/ StoreDown
  \/ StoreRecover
  \/ \E r \in Reqs : \E query \in Queries : \E top_k \in 1..MaxTopK : Receive(r, query, top_k)
  \/ \E r \in Reqs : \E ok \in BOOLEAN : EmbedQuery(r, ok)
  \/ \E r \in Reqs : Search(r)
  \/ \E r \in Reqs : \E ok \in BOOLEAN : Explain(r, ok)
  \/ \E r \in Reqs : Respond(r)
  \/ \E r \in Reqs : Finish(r)

Spec == Init /\ [][Next]_vars

InitStore ==
  /\ storeUp = TRUE
  /\ collections \in {{}} \cup {{[name |-> QDRANT_COLLECTION_NAME, size |-> size, points |-> {}]} : size \in EmbeddingSizes}
  /\ svc = [collection_name |-> QDRANT_COLLECTION_NAME, embedding_size |-> EMBEDDING_SIZE, state |-> "new"]
  /\ last_call = NoCall
  /\ ensure_created = 0
  /\ req = [r \in Reqs |-> IdleReq]
  /\ dir = EmptyDir
  /\ run = IdleRun

NextStore ==
  \/ StoreDown
  \/ StoreRecover
  \/ ensure_collection
  \/ \E vectors \in SeqsUpTo(VecInputs, MaxBatch) : upsert_embeddings(vectors)
  \/ get_collection_info
  \/ check_health
  \/ health_check

SpecStore == InitStore /\ [][NextStore]_vars

\* What the store may hold before the script runs: nothing, a collection of
\* either length, records of an earlier run or of another writer.
OldCollections ==
  {{}} \cup
  {{[name |-> QDRANT_COLLECTION_NAME, size |-> size, points |-> {}]} : size \in EmbeddingSizes} \cup
  {{[name |-> QDRANT_COLLECTION_NAME, size |-> EMBEDDING_SIZE, points |-> pts]} :
     pts \in {{PointOf(0, 1, EMBEDDING_SIZE)},
              {PointOf(0, 1, EMBEDDING_SIZE), PointOf(MaxFiles + 1, 0, EMBEDDING_SIZE)}}}

InitIndex ==
  /\ storeUp = TRUE
  /\ collections \in OldCollections
  /\ svc = [collection_name |-> QDRANT_COLLECTION_NAME, embedding_size |-> EMBEDDING_SIZE, state |-> "ready"]
  /\ last_call = NoCall
  /\ ensure_created = 0
  /\ req = [r \in Reqs |-> IdleReq]
  /\ dir \in Directories
  /\ run = IdleRun

NextIndex ==
  \/ StoreDown
  \/ StoreRecover
  \/ \E rebuild \in BOOLEAN : StartRun(rebuild)
  \/ RecreateDelete
  \/ RecreateCreate
  \/ \E ok \in BOOLEAN : LoadModel(ok)
  \/ ListImages
  \/ DecodeBatch
  \/ \E ok \in BOOLEAN : EmbedBatch(ok)
  \/ UpsertBatch
  \/ FinishRun

SpecIndex == InitIndex /\ [][NextIndex]_vars

(***************************************************************************)
(* Properties of the query pipeline (under Spec)                           *)
(***************************************************************************)
Descending(hits) == \A a, b \in 1..Len(hits) : a < b => hits[a].score >= hits[b].score

\* C1: the hits of a response are in the order of the hits returned by the
\* search (descending score), whichever explanation calls succeed or fail:
\* at every moment the results built so far are the first search results, in
\* order, and the response holds all of them.
C1_ResponseInSearchOrder ==
  \A r \in Reqs :
    /\ Len(req[r].results) = req[r].i
    /\ req[r].i <= Len(req[r].search_results)
    /\ \A k \in 1..Len(req[r].results) :
         /\ req[r].results[k].image_id = ToString(req[r].search_results[k].id)
         /\ req[r].results[k].score = req[r].search_results[k].score
    /\ req[r].pc = "done" =>
         /\ req[r].response[1].results = req[r].results
         /\ Len(req[r].results) = Len(req[r].search_results)
         /\ Descending(req[r].response[1].results)

\* C1's case: a response of two hits with different scores, the first
\* explanation failed and the second succeeded.
C1_Witness ==
  \E r \in Reqs :
    /\ req[r].pc = "done"
    /\ Len(req[r].response[1].results) = 2
    /\ req[r].response[1].results[1].score > req[r].response[1].results[2].score
    /\ req[r].failed_expl = {1}

\* C2: when the explanation provider fails for some hits, the response still
\* holds every hit of the search with its image_id, filename, score and
\* image_url; exactly the failed hits have no explanation, the others keep
\* theirs; and the request does not fail.
C2_ExplanationFailureIsNotFatal ==
  \A r \in Reqs :
    /\ req[r].failed_expl # {} => (req[r].pc # "failed" /\ req[r].status # 500)
    /\ req[r].pc = "done" =>
         LET out == req[r].response[1].results
             hits == req[r].search_results
         IN /\ req[r].status = 200
            /\ Len(out) = Len(hits)
            /\ \A k \in 1..Len(hits) :
                 /\ out[k].image_id = ToString(hits[k].id)
                 /\ out[k].filename = hits[k].payload.filename
                 /\ out[k].score = hits[k].score
                 /\ out[k].image_url = "/images/" \o hits[k].payload.filename
                 /\ (k \in req[r].failed_expl) <=> (out[k].explanation = None)
                 /\ (k \notin req[r].failed_expl) =>
                      out[k].explanation = ExplanationText(get_image_path(hits[k].payload.filename), req[r].query)

\* C2's case: a response of two hits of which only the second has no explanation.
C2_Witness ==
  \E r \in Reqs :
    /\ req[r].pc = "done"
    /\ Len(req[r].response[1].results) = 2
    /\ req[r].failed_expl = {2}
    /\ req[r].response[1].results[1].explanation # None
    /\ req[r].response[1].results[2].explanation = None

\* C3: when the query embedding fails the request fails with a service error
\* (HTTP 500): no search is issued, no explanation is asked for, and there is
\* no result list.
C3_EmbeddingFailureIsFatal ==
  \A r \in Reqs :
    req[r].embed_failed =>
      /\ req[r].pc = "failed"
      /\ req[r].status = 500
      /\ req[r].search_calls = 0
      /\ req[r].explain_calls = 0
      /\ req[r].results = <<>>
      /\ req[r].response = <<>>

\* C3's case: a request whose embedding failed, while the store is up and holds points.
C3_Witness ==
  \E r \in Reqs :
    /\ req[r].embed_failed
    /\ req[r].pc = "failed"
    /\ storeUp
    /\ TheCollection(collections, svc.collection_name).points # {}

\* C4: a failed vector-store search fails the request; a response with a
\* result list is returned only when a search result set was obtained.
C4_FailedSearchFailsRequest ==
  \A r \in Reqs : req[r].status = 200 => req[r].search_ok

\* C5: for a collection of n records and a positive top_k the response holds
\* exactly min(top_k, n) hits in descending score.
C5_ExactlyMinTopKHits ==
  \A r \in Reqs :
    req[r].status = 200 =>
      /\ Len(req[r].response[1].results) = Min(req[r].top_k, req[r].n_at_search)
      /\ Descending(req[r].response[1].results)

(***************************************************************************)
(* Properties of QdrantService (under SpecStore)                           *)
(***************************************************************************)
Called(op) == last_call'.tick # last_call.tick /\ last_call'.op = op

\* For each id of the batch, the last dict of that id.
LastOfId(batch, k) == \A j \in 1..Len(batch) : j > k => batch[j].id # batch[k].id

BatchIds(batch) == {batch[k].id : k \in 1..Len(batch)}

PointsOf(colls, name) == IF HasCollection(colls, name) THEN TheCollection(colls, name).points ELSE {}

\* C6: ensure_collection is idempotent: it creates the collection only when
\* it is absent and at most once over any number of calls, it ends without
\* error when the collection exists (the store being reachable), there is
\* never a second collection of the name, and an existing collection keeps
\* its records.
C6_EnsureIdempotent ==
  [][Called("ensure_collection") =>
       /\ Cardinality({c \in collections' : c.name = svc.collection_name}) <= 1
       /\ (storeUp /\ HasCollection(collections, svc.collection_name)) =>
            (last_call'.ret = StrVal("exists") /\ collections' = collections)
       /\ (storeUp /\ ~HasCollection(collections, svc.collection_name)) =>
            /\ last_call'.ret = StrVal("created")
            /\ collections' = collections \cup
                 {[name |-> svc.collection_name, size |-> svc.embedding_size, points |-> {}]}
       /\ last_call'.ret = StrVal("created") => ~HasCollection(collections, svc.collection_name)
       /\ ~storeUp => collections' = collections
       /\ ensure_created' <= 1]_vars

\* C6's case: ensure_collection created the collection, records were written,
\* and a later call found the collection there.
C6_Witness ==
  /\ last_call.op = "ensure_collection"
  /\ last_call.ret = StrVal("exists")
  /\ ensure_created = 1
  /\ PointsOf(collections, svc.collection_name) # {}

\* C7: ensure_collection signals a configuration error when the collection
\* exists with a dimensionality other than the configured embedding size.
C7_MismatchIsConfigurationError ==
  [][(/\ Called("ensure_collection")
      /\ storeUp
      /\ HasCollection(collections, svc.collection_name)
      /\ TheCollection(collections, svc.collection_name).size # svc.embedding_size)
     => last_call'.ret = StrVal("raised")]_vars

\* No collection holds two records of one id.
UniqueIds == \A c \in collections : \A p, q \in c.points : p.id = q.id => p = q

\* C8: upsert is insert-or-replace by id: the collection never holds two
\* records of one id; a successful upsert leaves, for every id of the batch,
\* the vector and payload of the last dict of that id, and the other records
\* as they were; a successful upsert of the batch just upserted changes nothing.
C8_UpsertIsInsertOrReplace ==
  /\ []UniqueIds
  /\ [][(Called("upsert_embeddings") /\ last_call'.ret = BoolVal(TRUE)) =>
          LET batch == last_call'.arg
              before == PointsOf(collections, svc.collection_name)
              after == PointsOf(collections', svc.collection_name)
          IN /\ \A k \in 1..Len(batch) :
                  LastOfId(batch, k) =>
                    {p \in after : p.id = batch[k].id} =
                      {[id |-> batch[k].id, vector |-> batch[k].vector, payload |-> batch[k].payload]}
             /\ {p \in after : p.id \notin BatchIds(batch)} = {p \in before : p.id \notin BatchIds(batch)}
             /\ (last_call.op = "upsert_embeddings" /\ last_call.ret = BoolVal(TRUE) /\ last_call.arg = batch)
                  => collections' = collections]_vars

\* C8's case: a successful upsert of two dicts of one id with different
\* contents, into a collection that holds another record too.
C8_Witness ==
  /\ last_call.op = "upsert_embeddings"
  /\ last_call.ret = BoolVal(TRUE)
  /\ Len(last_call.arg) = 2
  /\ last_call.arg[1].id = last_call.arg[2].id
  /\ last_call.arg[1] # last_call.arg[2]
  /\ Cardinality(PointsOf(collections, svc.collection_name)) = 2

\* C9: upsert_embeddings is all-or-nothing per call: when the points cannot
\* be built or the store refuses the write it returns False and the
\* collection is as before; it returns True only when every record of the
\* batch was written.
C9_UpsertAllOrNothing ==
  [][Called("upsert_embeddings") =>
       LET batch == last_call'.arg
           after == PointsOf(collections', svc.collection_name)
       IN /\ last_call'.ret \in {BoolVal(TRUE), BoolVal(FALSE)}
          /\ last_call'.ret = BoolVal(FALSE) => collections' = collections
          /\ (~PointsBuilt(batch) \/ ~storeUp \/ ~HasCollection(collections, svc.collection_name)
                \/ \E k \in 1..Len(batch) :
                     batch[k].vector.size # TheCollection(collections, svc.collection_name).size)
               => last_call'.ret = BoolVal(FALSE)
          /\ last_call'.ret = BoolVal(TRUE) =>
               /\ PointsBuilt(batch)
               /\ \A k \in 1..Len(batch) :
                    LastOfId(batch, k) =>
                      [id |-> batch[k].id, vector |-> batch[k].vector, payload |-> batch[k].payload] \in after]_vars

\* C9's case: the store is up, the first dict of the batch could have been
\* written, the second cannot (wrong length or no id): False is returned and
\* the first is not in the collection.
C9_Witness ==
  /\ last_call.op = "upsert_embeddings"
  /\ last_call.ret = BoolVal(FALSE)
  /\ storeUp
  /\ HasCollection(collections, svc.collection_name)
  /\ Len(last_call.arg) = 2
  /\ "id" \in DOMAIN last_call.arg[1]
  /\ last_call.arg[1].vector.size = TheCollection(collections, svc.collection_name).size
  /\ ("id" \notin DOMAIN last_call.arg[2]
        \/ last_call.arg[2].vector.size # TheCollection(collections, svc.collection_name).size)
  /\ \A p \in PointsOf(collections, svc.collection_name) : p.id # last_call.arg[1].id

\* C10: the probes report a store error as unhealthy or absent: with the
\* store unreachable check_health returns False, get_collection_info returns
\* None and the health endpoint reports qdrant_connected = false.
C10_ProbesReportStoreError ==
  [][~storeUp =>
       /\ Called("check_health") => last_call'.ret = BoolVal(FALSE)
       /\ Called("get_collection_info") => last_call'.ret = NoneInfo
       /\ Called("health_check") => last_call'.ret.qdrant_connected = FALSE]_vars

(***************************************************************************)
(* Properties of the indexing script                                       *)
(***************************************************************************)
StoredPoints == PointsOf(collections, QDRANT_COLLECTION_NAME)

\* The batch the loop is at: its files and the ones among them that fail to decode.
CurrentBatch == BatchFiles(run.image_files, run.i)

Failing(batch_files) == Range(batch_files) \cap dir.corrupt

NumBatches(n) == (n + batch_size - 1) \div batch_size

\* C11: an image that fails to decode is skipped with a warning and aborts
\* neither its batch nor the run: decoding a batch never ends the run, the
\* upsert of a batch of b images of which f fail adds exactly b - f records
\* to the collection, and a run that reaches its end has gone through every
\* batch of the listing.
C11_DecodeFailureIsSkipped ==
  /\ [][(run.pc = "batch" /\ run.i < Len(run.image_files) /\ run' # run)
          => /\ run'.pc \in {"batch", "embed"}
             /\ run'.warnings = run.warnings \cup Failing(CurrentBatch)
             /\ run'.pc = "batch" => (run'.i = run.i + batch_size /\ Failing(CurrentBatch) = Range(CurrentBatch))]_vars
  /\ [][(run.pc = "upsert" /\ run'.pc = "batch")
          => Cardinality(StoredPoints') - Cardinality(StoredPoints)
               = Len(CurrentBatch) - Cardinality(Failing(CurrentBatch))]_vars
  /\ [](run.pc = "done"
          => /\ Len(run.batches) = NumBatches(Len(run.image_files))
             /\ \A k \in 1..Len(run.batches) : run.batches[k].first = (k - 1) * batch_size
             /\ run.warnings = Range(run.image_files) \cap dir.corrupt)

\* A finished run whose first batch held two images that fail to decode and
\* still committed records, and whose second batch was committed after it.
C11_Witness ==
  /\ run.pc = "done"
  /\ Len(run.batches) = 2
  /\ Cardinality(Failing(BatchFiles(run.image_files, 0))) = 2
  /\ run.batches[1].committed = batch_size - 2
  /\ run.batches[2].committed > 0

\* C12: concurrent search requests only read the collection and are
\* independent: whatever step a request takes, in whatever interleaving, the
\* store's collections and the service's fields stay as they were, and no other
\* request's state changes.
C12_QueriesOnlyRead ==
  [][\A r \in Reqs :
       req'[r] # req[r]
         => /\ collections' = collections
            /\ svc' = svc
            /\ ensure_created' = ensure_created
            /\ \A o \in Reqs \ {r} : req'[o] = req[o]]_vars

\* Two requests overlap: one was answered from a collection that holds
\* records while the other, which has searched it too, is still in its loop.
C12_Witness ==
  /\ StoredPoints # {}
  /\ \E r \in Reqs : \E o \in Reqs \ {r} :
       /\ req[r].pc = "done" /\ req[r].status = 200 /\ req[r].search_ok /\ req[r].n_at_search > 0
       /\ req[o].pc = "explain" /\ req[o].search_ok /\ req[o].n_at_search > 0

\* The ids and the files of the records the run has committed so far.
AssignedIds == {run.assigned[k].id : k \in 1..Len(run.assigned)}

AssignedFiles == {run.assigned[k].file : k \in 1..Len(run.assigned)}

\* C13: within a run the committed records get distinct ids from a counter
\* that only grows: no id goes to two images, the ids handed out are exactly
\* the numbers below the counter (skipped images and skipped batches take
\* none), only images that decoded get one, and the record stored under an id
\* carries the filename and the embedding of the image the id was given to.
C13_IdsFromIncreasingCounter ==
  /\ [](/\ \A j, k \in 1..Len(run.assigned) :
              j # k => (run.assigned[j].id # run.assigned[k].id /\ run.assigned[j].file # run.assigned[k].file)
        /\ AssignedIds = 0..(run.point_id_counter - 1)
        /\ AssignedFiles \cap dir.corrupt = {}
        /\ AssignedFiles \cap run.warnings = {}
        /\ \A k \in 1..Len(run.assigned) :
              \E p \in StoredPoints :
                 /\ p.id = run.assigned[k].id
                 /\ p.payload.filename = FileOf(run.assigned[k].file)
                 /\ p.vector = ImageEmbedding(run.assigned[k].file))
  /\ [][run'.pc # "setup" => run'.point_id_counter >= run.point_id_counter]_vars

\* Two batches were committed in one run, the first after two of its images
\* were skipped: the second batch's ids go on where the first one's ended.
C13_Witness ==
  /\ Len(run.batches) = 2
  /\ run.batches[1].committed = batch_size - 2
  /\ run.batches[2].committed > 0
  /\ run.point_id_counter = run.batches[1].committed + run.batches[2].committed
  /\ \E k \in 1..Len(run.assigned) : run.assigned[k].id = batch_size - 2 /\ run.assigned[k].file \in Range(BatchFiles(run.image_files, batch_size))

\* C14: the collection is dropped and recreated only when a full rebuild was
\* asked for: a run for which it was not keeps every record it finds, adding
\* or replacing records by id only.
C14_DropOnlyOnRebuild ==
  [][(run.pc \notin {"idle", "done", "returned", "aborted"} /\ ~run.rebuild)
       => \A p \in StoredPoints : \E q \in StoredPoints' : q.id = p.id]_vars

\* What the operator can read off the error report about the place of the failure.
IdentifiesBatch(report, first) == "batch" \in DOMAIN report /\ report.batch = first

UpsertFailed == run.pc = "aborted" /\ run.error[1].exception = "upsert"

\* C15: a failed upsert is reported to the operator with the batch it struck,
\* and the records committed before it stay in the collection as they were.
C15_UpsertFailureNamesBatch ==
    (UpsertFailed
       => /\ IdentifiesBatch(run.error[1], run.i)
          /\ \A k \in 1..Len(run.assigned) :
                \E p \in StoredPoints : p.id = run.assigned[k].id /\ p.payload.filename = FileOf(run.assigned[k].file))

DecodedFiles == Range(run.image_files) \ dir.corrupt

\* C16: when a run comes to its end, the collection holds one record for
\* each image that decoded and no other record, its ids are 0..n-1 for the
\* final value n of the counter, and the count the script reports as stored,
\* the exact count it reads back and the size of the collection are all n.
C16_CollectionIsExactlyTheRun ==
    (run.pc = "done"
       => /\ \A n \in DecodedFiles : Cardinality({p \in StoredPoints : p.payload.filename = FileOf(n)}) = 1
          /\ \A p \in StoredPoints : \E n \in DecodedFiles : p.payload.filename = FileOf(n) /\ p.vector = ImageEmbedding(n)
          /\ Cardinality(StoredPoints) = run.point_id_counter
          /\ {p.id : p \in StoredPoints} = 0..(run.point_id_counter - 1)
          /\ run.reported = <<Cardinality(StoredPoints)>>
          /\ run.count = run.reported)

\* A run over more than one batch has ended, some image was skipped, and
\* the count read back is the number of images that decoded.
C16_Witness ==
  /\ run.pc = "done"
  /\ run.warnings # {}
  /\ Len(run.image_files) > batch_size
  /\ run.count = <<Cardinality(DecodedFiles)>>
  /\ run.count[1] > batch_size

====
